---- MODULE Spec2Model ----
(***************************************************************************)
(* mediawalker: start_walking spawns one background thread that drives a   *)
(* WalkDir iterator, classifies every regular file with infer and sends a  *)
(* MediaWalkResult per file over an std::sync::mpsc channel whose          *)
(* receiving end is returned to the caller.                                *)
(***************************************************************************)
EXTENDS Integers, Sequences, FiniteSets, TLC

\* ---------------------------------------------------------------- bounds
\* Longest sequence of entries the Tree Walker yields in one walk.
MaxEntries == 3

\* ------------------------------------------------------------- constants
AUDIO == "audio"
IMAGE == "image"
VIDEO == "video"

\* MIME types infer may report (media and non-media ones).
Mimes == {"audio/mpeg", "image/png", "video/mp4", "application/pdf"}

\* io::Error values infer::get_from_path may fail with.
IoErrors == {"NotFound", "PermissionDenied"}

\* -------------------------------------------------------------- the data
\* Result<bool, io::Error>
Ok(b) == [ok |-> TRUE, val |-> b, err |-> ""]
Err(e) == [ok |-> FALSE, val |-> FALSE, err |-> e]

\* io::Result<Option<infer::Type>> as returned by infer::get_from_path
InferSome(m) == [tag |-> "Some", mime |-> m, err |-> ""]
InferNone == [tag |-> "None", mime |-> "", err |-> ""]
InferErr(e) == [tag |-> "Err", mime |-> "", err |-> e]

\* What one item of the WalkDir iterator can be: an Err item, an entry that
\* is not a regular file, a regular file whose path is not valid UTF-8, or a
\* regular file with a textual path together with what infer finds in it.
WalkErrEntry == [ok |-> FALSE, is_file |-> FALSE, utf8 |-> FALSE, infer |-> InferNone]
DirEntry == [ok |-> TRUE, is_file |-> FALSE, utf8 |-> TRUE, infer |-> InferNone]
BadPathEntry == [ok |-> TRUE, is_file |-> TRUE, utf8 |-> FALSE, infer |-> InferNone]
FileEntry(inf) == [ok |-> TRUE, is_file |-> TRUE, utf8 |-> TRUE, infer |-> inf]

InferOutcomes ==
    {InferSome(m) : m \in Mimes} \cup {InferNone} \cup {InferErr(e) : e \in IoErrors}

EntryKinds ==
    {WalkErrEntry, DirEntry, BadPathEntry} \cup {FileEntry(inf) : inf \in InferOutcomes}

\* The path of the i-th item a walk from the given root yields (distinct
\* items, distinct paths; every path starts with the root).
PathIn(root, i) == root \o "/f" \o ToString(i)

\* The path of the i-th item the walker yields.
PathOf(i) == PathIn("root", i)

\* str::starts_with
starts_with(s, p) == Len(s) >= Len(p) /\ SubSeq(s, 1, Len(p)) = p

\* entry.path().to_str(): Some(path) for valid UTF-8, None otherwise
to_str(entry, i) == IF entry.utf8 THEN <<PathOf(i)>> ELSE <<>>

\* The media test of the Ok(Some(info)) arm.
IsMedia_noVideo(mime) ==
    \/ starts_with(mime, AUDIO)
    \/ starts_with(mime, IMAGE)

IsMedia(mime) ==
    \/ starts_with(mime, AUDIO)
    \/ starts_with(mime, IMAGE)
    \/ starts_with(mime, VIDEO)

\* The placeholder built before classification.
NewWalkResult(path) == [path |-> path, mime |-> "", result |-> Ok(TRUE)]

\* The three arms of the match on infer::get_from_path: the result as the
\* arm leaves it, and whether the arm sends it.
ArmSome_sendAlways(walk_result, mime) ==
    IF IsMedia(mime)
    THEN [send |-> TRUE, res |-> [walk_result EXCEPT !.mime = mime]]
    ELSE [send |-> TRUE, res |-> walk_result]

ArmSome(walk_result, mime) ==
    IF IsMedia(mime)
    THEN [send |-> TRUE, res |-> [walk_result EXCEPT !.mime = mime]]
    ELSE [send |-> FALSE, res |-> walk_result]

ArmNone(walk_result) ==
    [send |-> TRUE, res |-> [walk_result EXCEPT !.result = Ok(FALSE)]]

ArmErr_otherError(walk_result, e) ==
    [send |-> TRUE, res |-> [walk_result EXCEPT !.result = Err("Other")]]

ArmErr(walk_result, e) ==
    [send |-> TRUE, res |-> [walk_result EXCEPT !.result = Err(e)]]

Classify(path, inf) ==
    LET walk_result == NewWalkResult(path) IN
    CASE inf.tag = "Some" -> ArmSome(walk_result, inf.mime)
      [] inf.tag = "None" -> ArmNone(walk_result)
      [] inf.tag = "Err" -> ArmErr(walk_result, inf.err)

\* Whether the i-th walker item reaches the classifier: the three nested
\* tests around the body of the loop.
Qualifies_noFileTest(entry, i) ==
    entry.ok /\ to_str(entry, i) # <<>>

Qualifies(entry, i) ==
    entry.ok /\ entry.is_file /\ to_str(entry, i) # <<>>

\* mpsc channel: an unbounded FIFO queue
ChanPush_lifo(q, m) == <<m>> \o q

ChanPush_lossy(q, m) == IF Len(q) >= 1 THEN q ELSE Append(q, m)

ChanPush(q, m) == Append(q, m)
ChanFront(q) == Head(q)

ChanPop_keep(q) == q

ChanPop(q) == Tail(q)

\* ------------------------------------------------------------- the state
VARIABLES
    walker,     \* the items the WalkDir iterator yields, in order
    idx,        \* number of items the for loop has taken so far
    pc,         \* producer: "walk" | "send" | "done" | "panicked"
    held,       \* the walk_result the producer is about to send (<<>> if none)
    queue,      \* messages buffered in the channel
    rx,         \* receiver: "open" | "stopped" | "dropped"
    received,   \* results the consumer got, in order
    eos,        \* the consumer has seen the iteration end
    again,      \* history: the consumer tried to receive after the end
    sent,       \* history: results whose send succeeded, in order
    other       \* a second, simultaneous call of start_walking (or NoCall)

vars == <<walker, idx, pc, held, queue, rx, received, eos, again, sent, other>>

\* The variables of the first call.
vars1 == <<walker, idx, pc, held, queue, rx, received, eos, again, sent>>

\* start_walking was called once only.
NoCall ==
    [root |-> "", walker |-> <<>>, idx |-> 0, pc |-> "none", held |-> <<>>,
     queue |-> <<>>, rx |-> "none", received |-> <<>>, eos |-> FALSE,
     sent |-> <<>>]

\* A call right after it returned: its own channel, its own thread, its own
\* copy of the root path.
NewCall(root, w) ==
    [root |-> root, walker |-> w, idx |-> 0, pc |-> "walk", held |-> <<>>,
     queue |-> <<>>, rx |-> "open", received |-> <<>>, eos |-> FALSE,
     sent |-> <<>>]

\* The sending end is dropped when the closure returns or unwinds.
TxDropped == pc \in {"done", "panicked"}

\* State right after start_walking returned: channel created, thread spawned.
Init ==
    /\ walker \in UNION {[1..n -> EntryKinds] : n \in 0..MaxEntries}
    /\ idx = 0
    /\ pc = "walk"
    /\ held = <<>>
    /\ queue = <<>>
    /\ rx = "open"
    /\ received = <<>>
    /\ eos = FALSE
    /\ again = FALSE
    /\ sent = <<>>
    /\ other = NoCall

\* One iteration of the for loop up to, but not including, tx.send.
WalkStep_unwrapEntry ==
    /\ pc = "walk"
    /\ idx < Len(walker)
    /\ idx' = idx + 1
    /\ LET entry == walker[idx + 1]
       IN  IF ~entry.ok
           THEN pc' = "panicked" /\ held' = <<>>
           ELSE IF Qualifies(entry, idx + 1)
           THEN LET c == Classify(PathOf(idx + 1), entry.infer)
                IN  IF c.send
                    THEN pc' = "send" /\ held' = <<c.res>>
                    ELSE pc' = "walk" /\ held' = <<>>
           ELSE pc' = "walk" /\ held' = <<>>
    /\ UNCHANGED <<other, again, walker, queue, rx, received, eos, sent>>

WalkStep_stopAtError ==
    /\ pc = "walk"
    /\ idx < Len(walker)
    /\ idx' = idx + 1
    /\ LET entry == walker[idx + 1]
       IN  IF ~entry.ok
           THEN pc' = "done" /\ held' = <<>>
           ELSE IF Qualifies(entry, idx + 1)
           THEN LET c == Classify(PathOf(idx + 1), entry.infer)
                IN  IF c.send
                    THEN pc' = "send" /\ held' = <<c.res>>
                    ELSE pc' = "walk" /\ held' = <<>>
           ELSE pc' = "walk" /\ held' = <<>>
    /\ UNCHANGED <<other, again, walker, queue, rx, received, eos, sent>>

WalkStep ==
    /\ pc = "walk"
    /\ idx < Len(walker)
    /\ idx' = idx + 1
    /\ LET entry == walker[idx + 1]
       IN  IF Qualifies(entry, idx + 1)
           THEN LET c == Classify(PathOf(idx + 1), entry.infer)
                IN  IF c.send
                    THEN pc' = "send" /\ held' = <<c.res>>
                    ELSE pc' = "walk" /\ held' = <<>>
           ELSE pc' = "walk" /\ held' = <<>>
    /\ UNCHANGED <<other, again, walker, queue, rx, received, eos, sent>>

\* tx.send(walk_result).unwrap(): Err(SendError) once the receiver is gone.
Send_breakOnErr ==
    /\ pc = "send"
    /\ IF rx # "dropped"
       THEN /\ queue' = ChanPush(queue, held[1])
            /\ sent' = Append(sent, held[1])
            /\ pc' = IF held[1].result.ok THEN "walk" ELSE "done"
       ELSE /\ pc' = "panicked"
            /\ UNCHANGED <<queue, sent>>
    /\ held' = <<>>
    /\ UNCHANGED <<other, again, walker, idx, rx, received, eos>>

Send_keepCopy ==
    /\ pc = "send"
    /\ IF rx # "dropped"
       THEN /\ queue' = ChanPush(queue, held[1])
            /\ sent' = Append(sent, held[1])
            /\ pc' = "walk"
            /\ held' = held
       ELSE /\ pc' = "panicked"
            /\ held' = <<>>
            /\ UNCHANGED <<queue, sent>>
    /\ UNCHANGED <<other, again, walker, idx, rx, received, eos>>

Send_syncChannel ==
    /\ pc = "send"
    /\ rx = "dropped" \/ Len(queue) < 1
    /\ IF rx # "dropped"
       THEN /\ queue' = ChanPush(queue, held[1])
            /\ sent' = Append(sent, held[1])
            /\ pc' = "walk"
       ELSE /\ pc' = "panicked"
            /\ UNCHANGED <<queue, sent>>
    /\ held' = <<>>
    /\ UNCHANGED <<other, again, walker, idx, rx, received, eos>>

Send_ignoreError ==
    /\ pc = "send"
    /\ IF rx # "dropped"
       THEN /\ queue' = ChanPush(queue, held[1])
            /\ sent' = Append(sent, held[1])
       ELSE UNCHANGED <<queue, sent>>
    /\ pc' = "walk"
    /\ held' = <<>>
    /\ UNCHANGED <<other, again, walker, idx, rx, received, eos>>

Send ==
    /\ pc = "send"
    /\ IF rx # "dropped"
       THEN /\ queue' = ChanPush(queue, held[1])
            /\ sent' = Append(sent, held[1])
            /\ pc' = "walk"
       ELSE /\ pc' = "panicked"
            /\ UNCHANGED <<queue, sent>>
    /\ held' = <<>>
    /\ UNCHANGED <<other, again, walker, idx, rx, received, eos>>

\* The iterator is exhausted: the closure returns and tx is dropped.
Finish ==
    /\ pc = "walk"
    /\ idx = Len(walker)
    /\ pc' = "done"
    /\ UNCHANGED <<other, again, walker, idx, held, queue, rx, received, eos, sent>>

\* for received in rx: the next item
Recv_waitForDone ==
    /\ rx = "open"
    /\ TxDropped
    /\ queue # <<>>
    /\ received' = Append(received, ChanFront(queue))
    /\ queue' = ChanPop(queue)
    /\ UNCHANGED <<other, again, walker, idx, pc, held, rx, eos, sent>>

Recv ==
    /\ rx = "open"
    /\ queue # <<>>
    /\ received' = Append(received, ChanFront(queue))
    /\ queue' = ChanPop(queue)
    /\ UNCHANGED <<other, again, walker, idx, pc, held, rx, eos, sent>>

\* for received in rx: the channel is empty and disconnected, iteration ends
RecvEos_ignoreSender ==
    /\ rx = "open"
    /\ queue = <<>>
    /\ eos' = TRUE
    /\ again' = eos
    /\ UNCHANGED <<other, walker, idx, pc, held, queue, rx, received, sent>>

RecvEos ==
    /\ rx = "open"
    /\ queue = <<>>
    /\ TxDropped
    /\ eos' = TRUE
    /\ again' = eos
    /\ UNCHANGED <<other, walker, idx, pc, held, queue, rx, received, sent>>

\* The consumer keeps the receiver but never receives again.
StopReceiving ==
    /\ rx = "open"
    /\ ~eos
    /\ rx' = "stopped"
    /\ UNCHANGED <<other, again, walker, idx, pc, held, queue, received, eos, sent>>

\* The consumer drops the receiver; buffered messages are dropped with it.
DropReceiver ==
    /\ rx \in {"open", "stopped"}
    /\ rx' = "dropped"
    /\ queue' = <<>>
    /\ UNCHANGED <<other, again, walker, idx, pc, held, received, eos, sent>>

Next ==
    \/ WalkStep
    \/ Send
    \/ Finish
    \/ Recv
    \/ RecvEos
    \/ StopReceiving
    \/ DropReceiver

Spec == Init /\ [][Next]_vars

\* A consumer that keeps receiving until the stream ends, both threads
\* being scheduled fairly by the operating system.
DrainNext ==
    \/ WalkStep
    \/ Send
    \/ Finish
    \/ Recv
    \/ RecvEos

DrainSpec ==
    /\ Init
    /\ [][DrainNext]_vars
    /\ WF_vars(WalkStep)
    /\ WF_vars(Send)
    /\ WF_vars(Finish)
    /\ WF_vars(Recv)
    /\ WF_vars(RecvEos)

\* A consumer that keeps the receiver but never receives from it, the
\* producer thread being scheduled fairly.
StallNext ==
    \/ WalkStep
    \/ Send
    \/ Finish
    \/ StopReceiving

StallSpec ==
    /\ Init
    /\ [][StallNext]_vars
    /\ WF_vars(WalkStep)
    /\ WF_vars(Send)
    /\ WF_vars(Finish)

\* ------------------------------------------------ two simultaneous calls
\* Longest walk of either call when two calls run side by side.
MaxPairEntries == 2

\* The walker items considered when two calls run side by side.
PairKinds == {DirEntry, FileEntry(InferSome("audio/mpeg")), FileEntry(InferNone)}

PairWalks == UNION {[1..n -> PairKinds] : n \in 0..MaxPairEntries}

\* The root of the second call: the same directory or another one.
OtherRoots == {"root", "elsewhere"}

\* Two calls have returned; an unchanged directory yields the same items to
\* both walks of it.
PairInit ==
    /\ walker \in PairWalks
    /\ idx = 0
    /\ pc = "walk"
    /\ held = <<>>
    /\ queue = <<>>
    /\ rx = "open"
    /\ received = <<>>
    /\ eos = FALSE
    /\ again = FALSE
    /\ sent = <<>>
    /\ \E r \in OtherRoots, w \in PairWalks :
          /\ r = "root" => w = walker
          /\ other = NewCall(r, w)

\* The second call's thread: one iteration of the loop up to tx.send.
OtherWalkStep ==
    /\ other.pc = "walk"
    /\ other.idx < Len(other.walker)
    /\ LET i == other.idx + 1
           entry == other.walker[i]
       IN  IF Qualifies(entry, i)
           THEN LET c == Classify(PathIn(other.root, i), entry.infer)
                IN  IF c.send
                    THEN other' = [other EXCEPT !.idx = i, !.pc = "send",
                                                !.held = <<c.res>>]
                    ELSE other' = [other EXCEPT !.idx = i, !.held = <<>>]
           ELSE other' = [other EXCEPT !.idx = i, !.held = <<>>]
    /\ UNCHANGED vars1

\* The second call's tx.send(walk_result).unwrap(), on its own channel.
OtherSend_sharedChannel ==
    /\ other.pc = "send"
    /\ IF rx # "dropped"
       THEN /\ queue' = ChanPush(queue, other.held[1])
            /\ other' = [other EXCEPT !.sent = Append(@, other.held[1]),
                                      !.pc = "walk", !.held = <<>>]
       ELSE /\ other' = [other EXCEPT !.pc = "panicked", !.held = <<>>]
            /\ UNCHANGED queue
    /\ UNCHANGED <<walker, idx, pc, held, rx, received, eos, again, sent>>

OtherSend ==
    /\ other.pc = "send"
    /\ IF other.rx # "dropped"
       THEN other' = [other EXCEPT !.queue = ChanPush(@, other.held[1]),
                                   !.sent = Append(@, other.held[1]),
                                   !.pc = "walk", !.held = <<>>]
       ELSE other' = [other EXCEPT !.pc = "panicked", !.held = <<>>]
    /\ UNCHANGED vars1

\* The second call's closure returns and drops its tx.
OtherFinish ==
    /\ other.pc = "walk"
    /\ other.idx = Len(other.walker)
    /\ other' = [other EXCEPT !.pc = "done"]
    /\ UNCHANGED vars1

\* The second caller's for loop over its own receiver.
OtherRecv ==
    /\ other.rx = "open"
    /\ other.queue # <<>>
    /\ other' = [other EXCEPT !.received = Append(@, ChanFront(other.queue)),
                              !.queue = ChanPop(@)]
    /\ UNCHANGED vars1

OtherRecvEos ==
    /\ other.rx = "open"
    /\ other.queue = <<>>
    /\ other.pc \in {"done", "panicked"}
    /\ other' = [other EXCEPT !.eos = TRUE]
    /\ UNCHANGED vars1

\* The second caller drops its receiver. (It stalls by not receiving: no
\* step of it is ever forced.)
OtherDropReceiver ==
    /\ other.rx = "open"
    /\ other' = [other EXCEPT !.rx = "dropped", !.queue = <<>>]
    /\ UNCHANGED vars1

PairNext ==
    \/ WalkStep
    \/ Send
    \/ Finish
    \/ Recv
    \/ RecvEos
    \/ StopReceiving
    \/ DropReceiver
    \/ OtherWalkStep
    \/ OtherSend
    \/ OtherFinish
    \/ OtherRecv
    \/ OtherRecvEos
    \/ OtherDropReceiver

PairSpec == PairInit /\ [][PairNext]_vars

\* ------------------------------------------------------------ properties
IsPrefix(s, t) == Len(s) <= Len(t) /\ SubSeq(t, 1, Len(s)) = s

\* Positions of the results with a given path in a sequence of results.
Hits(seq, path) == {k \in 1..Len(seq) : seq[k].path = path}

\* The position in the walk of the file a result is about.
WalkIndex(r) == CHOOSE i \in 1..Len(walker) : PathOf(i) = r.path

\* The i-th walker item is a regular file with a textual path.
TextualFile(i) == walker[i].ok /\ walker[i].is_file /\ walker[i].utf8

\* The i-th walker item is a textual regular file that infer reports as ...
MediaFile(i) ==
    /\ TextualFile(i)
    /\ walker[i].infer.tag = "Some"
    /\ walker[i].infer.mime \in {"audio/mpeg", "image/png", "video/mp4"}

OtherTypeFile(i) ==
    /\ TextualFile(i)
    /\ walker[i].infer.tag = "Some"
    /\ walker[i].infer.mime = "application/pdf"

UnknownTypeFile(i) == TextualFile(i) /\ walker[i].infer.tag = "None"

UnreadableFile(i) == TextualFile(i) /\ walker[i].infer.tag = "Err"

\* C1: the results received are a prefix of the results sent, and all of
\* them once the end of the stream was seen; while the receiver lives,
\* received followed by the channel's content is exactly what was sent; and
\* the results were sent in the order the walker yielded their files, each
\* file at most once.
C1_FifoDelivery ==
    /\ IsPrefix(received, sent)
    /\ (eos => received = sent)
    /\ (rx # "dropped" => received \o queue = sent)
    /\ \A k \in 1..Len(sent) : \E i \in 1..idx : PathOf(i) = sent[k].path
    /\ \A a, b \in 1..Len(sent) :
          a < b => WalkIndex(sent[a]) < WalkIndex(sent[b])

\* Two results were received in walk order while a third is still queued
\* or the producer is still walking.
C1_Witness ==
    /\ Len(received) >= 2
    /\ WalkIndex(received[1]) < WalkIndex(received[2])
    /\ (queue # <<>> \/ pc = "walk")

\* C2: once the consumer has drained the stream, every textual regular file
\* detected as audio/..., image/... or video/... has exactly one result, and
\* it is Ok(true) with the file's path and the full detected MIME string.
C2_MediaMatched ==
    eos => \A i \in 1..Len(walker) :
        MediaFile(i) =>
            /\ Cardinality(Hits(received, PathOf(i))) = 1
            /\ \A k \in Hits(received, PathOf(i)) :
                  received[k] = [path |-> PathOf(i),
                                 mime |-> walker[i].infer.mime,
                                 result |-> Ok(TRUE)]

\* A drained walk that held an audio, an image and a video file.
C2_Witness ==
    /\ eos
    /\ \E i, j, k \in 1..Len(walker) :
          /\ MediaFile(i) /\ walker[i].infer.mime = "audio/mpeg"
          /\ MediaFile(j) /\ walker[j].infer.mime = "image/png"
          /\ MediaFile(k) /\ walker[k].infer.mime = "video/mp4"
    /\ Len(received) = 3

\* C3: once the consumer has drained the stream, every textual regular file
\* whose type is detected but not audio/image/video, or not detectable, has
\* exactly one result, and it is Ok(false) with an empty mime.
C3_NoMatchDelivered ==
    eos => \A i \in 1..Len(walker) :
        (OtherTypeFile(i) \/ UnknownTypeFile(i)) =>
            /\ Cardinality(Hits(received, PathOf(i))) = 1
            /\ \A k \in Hits(received, PathOf(i)) :
                  received[k] = [path |-> PathOf(i),
                                 mime |-> "",
                                 result |-> Ok(FALSE)]

\* C4: once the consumer has drained the stream, every textual regular file
\* on which infer failed has exactly one result, and it is Err(e) with the
\* very error infer returned and an empty mime.
C4_FailedDelivered ==
    eos => \A i \in 1..Len(walker) :
        UnreadableFile(i) =>
            /\ Cardinality(Hits(received, PathOf(i))) = 1
            /\ \A k \in Hits(received, PathOf(i)) :
                  received[k] = [path |-> PathOf(i),
                                 mime |-> "",
                                 result |-> Err(walker[i].infer.err)]

\* A drained walk with two unreadable files that failed differently.
C4_Witness ==
    /\ eos
    /\ \E i, j \in 1..Len(walker) :
          /\ UnreadableFile(i) /\ walker[i].infer.err = "NotFound"
          /\ UnreadableFile(j) /\ walker[j].infer.err = "PermissionDenied"

\* C5: every result the producer holds for sending, or has sent, is about
\* a walker item already taken that is a regular file with a textual path;
\* error items, non-regular entries and files with an unrepresentable path
\* have no result at all.
C5_OnlyTextualFiles ==
    \A r \in {sent[k] : k \in 1..Len(sent)} \cup {held[k] : k \in 1..Len(held)} :
        \E i \in 1..idx : PathOf(i) = r.path /\ TextualFile(i)

\* The whole walk was taken, it had an item that is no textual regular
\* file followed by one that is, and something was sent.
C5_Witness ==
    /\ idx = Len(walker)
    /\ pc = "done"
    /\ \E i, j \in 1..Len(walker) : i < j /\ ~TextualFile(i) /\ TextualFile(j)
    /\ sent # <<>>

\* C6: with a consumer that keeps receiving and both threads scheduled
\* fairly, the producer eventually returns (dropping the sender) and the
\* consumer eventually sees the end of the stream; the end of the stream is
\* seen only when the sender is dropped and everything sent was received.
C6_Termination ==
    /\ <>(pc = "done")
    /\ <>eos
    /\ [](eos => (TxDropped /\ queue = <<>> /\ received = sent))

\* The end of the stream was seen after two results were received.
C6_Witness == eos /\ pc = "done" /\ Len(received) >= 2 /\ received = sent

C8_RunsToCompletion ==
    TxDropped => (idx = Len(walker) /\ pc = "done")

\* C9: the background task never panics.
C9_NeverPanics == pc # "panicked"

\* No walker item is a regular file.
NoRegularFile == \A i \in 1..Len(walker) : ~(walker[i].ok /\ walker[i].is_file)

\* C10: in a walk without a regular file the producer never holds or sends
\* a result and never panics, the consumer never receives an item, and once
\* the producer returned a receive ends the stream.
C10_EmptyWalk ==
    NoRegularFile =>
        /\ sent = <<>> /\ queue = <<>> /\ held = <<>>
        /\ pc \in {"walk", "done"}
        /\ received = <<>>
        /\ ~ENABLED Recv
        /\ (pc = "done" /\ rx = "open" => ENABLED RecvEos)
        /\ (eos => pc = "done" /\ idx = Len(walker))

\* The consumer saw the end of a walk that yielded only the root directory
\* or only an error item.
C10_Witness ==
    /\ walker \in {<<DirEntry>>, <<WalkErrEntry>>}
    /\ eos
    /\ received = <<>>
\* C13: once the consumer has seen the end of the stream the sender is gone
\* and the channel is empty, so every further receive ends the stream again
\* and leaves what was received untouched; no file's result is ever
\* received twice.
C13_SinglePass ==
    /\ [](eos => (TxDropped /\ queue = <<>>))
    /\ [](\A a, b \in 1..Len(received) :
            a # b => received[a].path # received[b].path)
    /\ [][eos => (eos' /\ received' = received /\ queue' = <<>>)]_vars

\* The consumer received two results, saw the end of the stream and tried
\* to receive once more.
C13_Witness == eos /\ again /\ Len(received) >= 2

\* Everything the channel holds or the consumer has.
Delivered == {queue[k] : k \in 1..Len(queue)} \cup {received[k] : k \in 1..Len(received)}

\* C14: every result in the channel or received has a non-empty path; its
\* mime is non-empty exactly when its result is Ok(true), and then starts
\* with "audio", "image" or "video"; the placeholder built before
\* classification is never delivered as it was built.
C14_ResultShape ==
    \A r \in Delivered :
        /\ r.path # ""
        /\ (r.mime # "" <=> r.result = Ok(TRUE))
        /\ (r.result = Ok(TRUE) =>
              \E p \in {"audio", "image", "video"} :
                  Len(r.mime) >= 5 /\ SubSeq(r.mime, 1, 5) = p)
        /\ (r.result # Ok(TRUE) => r.mime = "")
        /\ r # [path |-> r.path, mime |-> "", result |-> Ok(TRUE)]

\* The consumer received a matched, an unmatched and a failed result.
C14_Witness ==
    /\ \E k \in 1..Len(received) : received[k].result = Ok(TRUE)
    /\ \E k \in 1..Len(received) : received[k].result = Ok(FALSE)
    /\ \E k \in 1..Len(received) : ~received[k].result.ok

\* The walker item i is a file for which the producer builds and sends a
\* result.
SendingFile(i) == MediaFile(i) \/ UnknownTypeFile(i) \/ UnreadableFile(i)

\* Where results live: with the producer, in the channel, with the consumer.
Places == held \o queue \o received

\* C15: no result is in two places at once; while the receiver is alive
\* every result built so far is in exactly one place and the number sent is
\* the number queued plus the number received.
C15_SingleOwnership ==
    /\ \A a, b \in 1..Len(Places) : a # b => Places[a].path # Places[b].path
    /\ rx # "dropped" =>
          /\ Len(sent) = Len(queue) + Len(received)
          /\ \A i \in 1..idx :
                SendingFile(i) => Cardinality(Hits(Places, PathOf(i))) = 1

\* One result is with the producer, one in the channel, one with the
\* consumer.
C15_Witness ==
    /\ rx = "open"
    /\ Len(held) = 1 /\ Len(queue) = 1 /\ Len(received) = 1

\* C16: a result can be received as soon as it was sent, whatever the
\* producer is doing; the consumer does not wait for the walk to end.
C16_Streamed ==
    (rx = "open" /\ Len(received) < Len(sent)) => ENABLED Recv

\* The consumer has a result while the producer still has walker items to
\* take.
C16_Witness ==
    /\ received # <<>>
    /\ pc = "walk"
    /\ idx < Len(walker)

\* C17: with a consumer that holds the receiver and never receives, the
\* producer takes every walker item and returns, never panics, and all it
\* sent stays in the channel in the order sent.
C17_NeverBlocks ==
    /\ <>(pc = "done" /\ idx = Len(walker))
    /\ [](pc # "panicked")
    /\ [](received = <<>> /\ queue = sent)

\* The producer returned with three results left in the channel.
C17_Witness ==
    /\ pc = "done"
    /\ rx = "stopped"
    /\ Len(queue) = 3
    /\ queue = sent

\* C18: after the receiver is dropped nothing more is sent; the producer
\* panics at its next send and only there, and then takes no further item;
\* items that lead to no send are still taken one by one.
C18_StopsAtFirstSend ==
    /\ [](pc = "panicked" => (rx = "dropped" /\ idx >= 1 /\ SendingFile(idx)))
    /\ [][rx = "dropped" => sent' = sent]_vars
    /\ [][(rx = "dropped" /\ pc = "send" /\ pc' # "send") =>
              (pc' = "panicked" /\ idx' = idx)]_vars
    /\ [][pc = "panicked" => (pc' = "panicked" /\ idx' = idx)]_vars
    /\ [][(rx = "dropped" /\ pc = "walk" /\ idx' = idx + 1
                /\ ~SendingFile(idx + 1)) => pc' = "walk"]_vars

\* The producer panicked at the second item, a file, after an item without
\* a result, with a third item never taken, and nothing was ever sent.
C18_Witness ==
    /\ pc = "panicked"
    /\ Len(walker) = 3
    /\ idx = 2
    /\ ~SendingFile(1)
    /\ sent = <<>>

\* C19: once the consumer has drained the stream, no error item of the
\* walker has a result, every walker item was taken and the producer
\* returned, and every file after an error item that has a result coming
\* got it.
C19_WalkErrorSkipped ==
    eos => \A i \in 1..Len(walker) :
        ~walker[i].ok =>
            /\ Hits(received, PathOf(i)) = {}
            /\ idx = Len(walker)
            /\ pc = "done"
            /\ \A j \in (i + 1)..Len(walker) :
                  SendingFile(j) => Cardinality(Hits(received, PathOf(j))) = 1

\* A drained walk whose first item was an error item, followed by a file
\* whose result was received.
C19_Witness ==
    /\ eos
    /\ Len(walker) >= 2
    /\ ~walker[1].ok
    /\ SendingFile(2)
    /\ Hits(received, PathOf(2)) # {}

\* The result the walk from a root gets for the i-th item of w, if any.
ResultsOf(root, w, i) ==
    LET e == w[i]
        p == PathIn(root, i)
    IN  IF ~(e.ok /\ e.is_file /\ e.utf8) THEN <<>>
        ELSE IF e.infer.tag = "None"
             THEN <<[path |-> p, mime |-> "", result |-> Ok(FALSE)]>>
        ELSE IF e.infer.tag = "Err"
             THEN <<[path |-> p, mime |-> "", result |-> Err(e.infer.err)]>>
        ELSE IF e.infer.mime \in {"audio/mpeg", "image/png", "video/mp4"}
             THEN <<[path |-> p, mime |-> e.infer.mime, result |-> Ok(TRUE)]>>
        ELSE <<>>

\* The results of the first n items of w, in walk order.
RECURSIVE StreamOf(_, _, _)
StreamOf(root, w, n) ==
    IF n = 0 THEN <<>>
    ELSE StreamOf(root, w, n - 1) \o ResultsOf(root, w, n)

\* C11: two walks of the same unchanged directory, both drained to the end
\* of the stream, delivered the same sequence of results, however the four
\* threads were interleaved.
C11_SameWalkSameStream ==
    (other.root = "root" /\ other.walker = walker /\ eos /\ other.eos)
        => received = other.received

\* Both walks of the same directory were drained and delivered two results.
C11_Witness ==
    /\ other.root = "root"
    /\ other.walker = walker
    /\ eos /\ other.eos
    /\ Len(received) = 2
    /\ Len(other.received) = 2

\* C12: each of two simultaneous calls delivers to its own consumer a
\* prefix of its own walk's results, in walk order, and all of them once
\* that consumer saw the end of its stream, whatever the other consumer did
\* with its receiver; nothing of one walk shows up in the other's channel.
C12_IndependentCalls ==
    /\ IsPrefix(received \o queue, StreamOf("root", walker, Len(walker)))
    /\ IsPrefix(other.received \o other.queue,
                StreamOf(other.root, other.walker, Len(other.walker)))
    /\ (eos => received = StreamOf("root", walker, Len(walker)))
    /\ (other.eos =>
          other.received = StreamOf(other.root, other.walker, Len(other.walker)))
    /\ (rx # "dropped" => received \o queue = sent)
    /\ (other.rx # "dropped" => other.received \o other.queue = other.sent)

\* Two walks of different directories: the first consumer dropped its
\* receiver and its producer panicked, the second one drained two results.
C12_Witness ==
    /\ other.root # "root"
    /\ rx = "dropped" /\ pc = "panicked"
    /\ other.eos
    /\ Len(other.received) = 2
    /\ Len(walker) = 2
====
